---- MODULE Spec2Model ----
(***************************************************************************)
(* A model of the safety layer of rs-luau: the stack index validator       *)
(* (Luau::check_index), the userdata borrow tracker (UserdataRef /         *)
(* UserdataRefMut over Userdata::count_cell) and the liveness flag that    *)
(* ties every LuauThread to its owning root Luau.                          *)
(***************************************************************************)
EXTENDS Integers, Sequences, FiniteSets, TLC

VARIABLES
    \* --- stack index validator (one call on one stack depth) ---
    top,            \* lua_gettop(state) as seen by the call
    idx,            \* the caller-supplied index
    op,             \* which operation has been applied ("none" before it)
    verdict,        \* the value check_index returned
    halted,         \* the luau_stack_precondition! assertion panicked
    foreign_call,   \* the operation went on to its foreign call
    \* --- userdata borrow tracker ---
    stack,          \* the VM stack of the root: block ids, 0 for a number
    userdata,       \* the Userdata<T> blocks on the VM heap, by block id
    refGuards,      \* outstanding UserdataRef guards, per block
    mutGuards,      \* outstanding UserdataRefMut guards, per block
    last,           \* the last operation of the borrow API and its result
    \* --- root / thread lifetime ---
    rootpc,         \* per root: the position of its Drop
    main_thread_rc, \* per root: AssociatedData::main_thread_rc
    associated,     \* per root: is the Box<AssociatedData> still allocated
    vm,             \* per root: the state of the VM state
    handles,        \* the LuauThread handles held by the host
    access,         \* the last try_get_state / callback observation
    \* --- the VM behind the stack API ---
    ret,            \* the last stack operation: its arguments and what it returned
    tables,         \* the tables of the VM heap, by table id
    closures,       \* the C closures of the VM heap, by closure id
    luau,           \* the owning root of the stack: alive, closing or dropped
    embedded,       \* the objects the host handed to push_userdata, by block id
    reclaim,        \* per block: runs of the per-tag hook and of drop_in_place
    \* --- root creation, application data, state references ---
    created,        \* per root: what Luau::new made of it
    app_data,       \* per root: AssociatedData::app_data
    app,            \* the last creation or application-data call and its result
    state_refs,     \* the handles whose &Luau from get_state the host still holds
    \* --- pure functions under check ---
    input,          \* the receiver and arguments the function is applied to
    output          \* what the function returned and which calls it made

varsIndex == <<top, idx, op, verdict, halted, foreign_call>>
varsBorrow == <<stack, userdata, refGuards, mutGuards, last>>
varsBorrowHeap == <<stack, userdata, refGuards, mutGuards>>
varsLife == <<rootpc, main_thread_rc, associated, vm, handles, access>>
varsLifeState == <<rootpc, main_thread_rc, associated, vm, handles>>
varsVm == <<ret, tables, closures, luau, embedded, reclaim>>
varsHost == <<created, app_data, app, state_refs>>
varsPure == <<input, output>>
vars == <<top, idx, op, verdict, halted, foreign_call,
          stack, userdata, refGuards, mutGuards, last,
          rootpc, main_thread_rc, associated, vm, handles, access,
          ret, tables, closures, luau, embedded, reclaim,
          created, app_data, app, state_refs, input, output>>

(***************************************************************************)
(* Program constants.                                                      *)
(***************************************************************************)
LUAI_MAXCSTACK == 8000

LUA_REGISTRYINDEX ==
    (-LUAI_MAXCSTACK) - 2000

LUA_ENVIRONINDEX ==
    (-LUAI_MAXCSTACK) - 2001

LUA_GLOBALSINDEX ==
    (-LUAI_MAXCSTACK) - 2002

lua_upvalueindex(i) ==
    LUA_GLOBALSINDEX - i

(***************************************************************************)
(* Bounds of the model.                                                    *)
(***************************************************************************)
MaxTop == 3
MaxIdx == 5
MaxUpvalues == 2
MaxStack == 2
MaxGuards == 3
NumRoots == 2
MaxHandles == 2
MaxTables == 1
MaxClosures == 2
MaxLen == 3
MaxLibBit == 2

(***************************************************************************)
(* c_int arithmetic.                                                       *)
(***************************************************************************)
INT_MAX == 2147483647

INT_MIN ==
    (-INT_MAX) - 1

\* i32::wrapping_add: the sum modulo 2^32, taken back into [INT_MIN, INT_MAX].
wrapping_add(a, b) ==
    IF b > 0 /\ a > INT_MAX - b
    THEN (a - INT_MAX - 1) + (b - INT_MAX - 1)
    ELSE IF b < 0 /\ a < INT_MIN - b
         THEN (a + INT_MAX + 1) + (b + INT_MAX + 1)
         ELSE a + b

(***************************************************************************)
(* StackIndexValidator: Luau::check_index and the queries guarded by it.   *)
(***************************************************************************)
\* lua_checkstack(state, sz) == 1: false when the push would take the stack
\* above the fixed maximum size.
check_stack(t, sz) ==
    sz <= LUAI_MAXCSTACK /\ t + sz <= LUAI_MAXCSTACK

\* check_index with `idx >= 0` read as `idx >= 1`.
check_index_positive_only(i, t) ==
    IF i <= LUA_REGISTRYINDEX
    THEN TRUE
    ELSE LET n == IF i < 0 THEN wrapping_add(t, i) ELSE i
         IN  IF n < LUA_GLOBALSINDEX
             THEN TRUE
             ELSE n >= 1 /\ n <= t /\ n < LUAI_MAXCSTACK

\* check_index without the unconditional acceptance at or below the registry
\* index: only what normalises below the globals index is accepted.
check_index_no_pseudo(i, t) ==
    LET n == IF i < 0 THEN wrapping_add(t, i) ELSE i
    IN  IF n < LUA_GLOBALSINDEX
        THEN TRUE
        ELSE n >= 0 /\ n <= t /\ n < LUAI_MAXCSTACK

\* Luau::check_index(idx) on a stack whose lua_gettop is t.
check_index(i, t) ==
    IF i <= LUA_REGISTRYINDEX
    THEN TRUE
    ELSE LET n == IF i < 0 THEN wrapping_add(t, i) ELSE i
         IN  IF n < LUA_GLOBALSINDEX
             THEN TRUE
             ELSE n >= 0 /\ n <= t /\ n < LUAI_MAXCSTACK

\* luau_stack_precondition!(cond): the assertion panics when cond is false.
luau_stack_precondition(cond) ==
    ~cond

\* Luau::type_of(idx): the precondition, then the foreign call lua_type.
type_of(i, t) ==
    [panic |-> luau_stack_precondition(check_index(i, t)),
     foreign_call |-> ~luau_stack_precondition(check_index(i, t))]

\* Luau::is_number(idx) == (type_of(idx) == LUA_TNUMBER): it halts exactly
\* when type_of halts.
is_number(i, t) ==
    type_of(i, t)

\* The stack depths the validator is applied on: shallow stacks and the
\* deepest stacks check_stack lets a caller build.
TopInputs ==
    {t \in (0 .. MaxTop) \cup {LUAI_MAXCSTACK - 1, LUAI_MAXCSTACK} :
        t = 0 \/ check_stack(t - 1, 1)}

\* The indices handed to the validator: around zero, around the maximum
\* C stack size, the pseudo-index sentinels and upvalue pseudo-indices.
IdxInputs ==
    ((-MaxIdx) .. MaxIdx)
    \cup {LUAI_MAXCSTACK - 1, LUAI_MAXCSTACK, LUAI_MAXCSTACK + 1}
    \cup {-(LUAI_MAXCSTACK - 1), -LUAI_MAXCSTACK, -(LUAI_MAXCSTACK + 1)}
    \cup {LUA_REGISTRYINDEX + 1, LUA_REGISTRYINDEX, LUA_ENVIRONINDEX, LUA_GLOBALSINDEX}
    \cup {lua_upvalueindex(i) : i \in 1 .. MaxUpvalues}
    \cup {INT_MIN}

IndexIdle ==
    /\ top = 0
    /\ idx = 0
    /\ op = "none"
    /\ verdict = FALSE
    /\ halted = FALSE
    /\ foreign_call = FALSE

IndexInit ==
    /\ top \in TopInputs
    /\ idx \in IdxInputs
    /\ op = "none"
    /\ verdict = FALSE
    /\ halted = FALSE
    /\ foreign_call = FALSE

CallCheckIndex ==
    /\ op = "none"
    /\ op' = "check_index"
    /\ verdict' = check_index(idx, top)
    /\ UNCHANGED <<top, idx, halted, foreign_call>>
    /\ UNCHANGED <<varsBorrow, varsLife, varsVm, varsHost, varsPure>>

CallIsNumber ==
    /\ op = "none"
    /\ op' = "is_number"
    /\ halted' = is_number(idx, top).panic
    /\ foreign_call' = is_number(idx, top).foreign_call
    /\ UNCHANGED <<top, idx, verdict>>
    /\ UNCHANGED <<varsBorrow, varsLife, varsVm, varsHost, varsPure>>

\* Luau::to_boolean(idx): the precondition, then lua_toboolean.
to_boolean_checks(i, t) ==
    [panic |-> luau_stack_precondition(check_index(i, t)),
     foreign_call |-> ~luau_stack_precondition(check_index(i, t))]

\* Luau::set_readonly(idx, enabled): assert!(self.is_table(idx)), whose
\* type_of carries the precondition, then lua_setreadonly.
set_readonly_checks(i, t, is_table) ==
    [panic |-> type_of(i, t).panic,
     foreign_call |-> ~type_of(i, t).panic /\ is_table]

\* Luau::get_thread(idx): lua_tothread(self.state, idx) is the first statement.
get_thread_checks(i, t) ==
    [panic |-> FALSE, foreign_call |-> TRUE]

\* Luau::push_nil(): the precondition on check_stack(1), then lua_pushnil.
push_nil_checks(t) ==
    [panic |-> luau_stack_precondition(check_stack(t, 1)),
     foreign_call |-> ~luau_stack_precondition(check_stack(t, 1))]

\* Luau::create_table() and create_table_with_capacity(): lua_createtable is
\* the only statement.
create_table_checks(t) ==
    [panic |-> FALSE, foreign_call |-> TRUE]

\* Luau::push_thread(): lua_newthread is the first statement.
push_thread_checks(t) ==
    [panic |-> FALSE, foreign_call |-> TRUE]

CallToBoolean ==
    /\ op = "none"
    /\ op' = "to_boolean"
    /\ halted' = to_boolean_checks(idx, top).panic
    /\ foreign_call' = to_boolean_checks(idx, top).foreign_call
    /\ UNCHANGED <<top, idx, verdict>>
    /\ UNCHANGED <<varsBorrow, varsLife, varsVm, varsHost, varsPure>>

CallSetReadonly(is_table) ==
    /\ op = "none"
    /\ op' = "set_readonly"
    /\ halted' = set_readonly_checks(idx, top, is_table).panic
    /\ foreign_call' = set_readonly_checks(idx, top, is_table).foreign_call
    /\ UNCHANGED <<top, idx, verdict>>
    /\ UNCHANGED <<varsBorrow, varsLife, varsVm, varsHost, varsPure>>

CallGetThread ==
    /\ op = "none"
    /\ op' = "get_thread"
    /\ halted' = get_thread_checks(idx, top).panic
    /\ foreign_call' = get_thread_checks(idx, top).foreign_call
    /\ UNCHANGED <<top, idx, verdict>>
    /\ UNCHANGED <<varsBorrow, varsLife, varsVm, varsHost, varsPure>>

CallPushNil ==
    /\ op = "none"
    /\ op' = "push_nil"
    /\ halted' = push_nil_checks(top).panic
    /\ foreign_call' = push_nil_checks(top).foreign_call
    /\ UNCHANGED <<top, idx, verdict>>
    /\ UNCHANGED <<varsBorrow, varsLife, varsVm, varsHost, varsPure>>

CallCreateTable ==
    /\ op = "none"
    /\ op' = "create_table"
    /\ halted' = create_table_checks(top).panic
    /\ foreign_call' = create_table_checks(top).foreign_call
    /\ UNCHANGED <<top, idx, verdict>>
    /\ UNCHANGED <<varsBorrow, varsLife, varsVm, varsHost, varsPure>>

CallPushThread ==
    /\ op = "none"
    /\ op' = "push_thread"
    /\ halted' = push_thread_checks(top).panic
    /\ foreign_call' = push_thread_checks(top).foreign_call
    /\ UNCHANGED <<top, idx, verdict>>
    /\ UNCHANGED <<varsBorrow, varsLife, varsVm, varsHost, varsPure>>

(***************************************************************************)
(* TaggedValueStore and BorrowTracker: Userdata<T>, UserdataRef<T>,        *)
(* UserdataRefMut<T> and the Luau operations that reach them.              *)
(***************************************************************************)
\* The host types embedded by the tests: (), and Vec<i32> (which has drop glue).
Types ==
    {"Unit", "Vec"}

\* The objects the host embeds: the one value of (), and two distinct vectors.
Objects ==
    {[ty |-> "Unit", val |-> 0], [ty |-> "Vec", val |-> 1], [ty |-> "Vec", val |-> 2]}

\* Any::type_id(&object)
type_id(object) ==
    object.ty

\* std::mem::needs_drop::<T>() answering false for every type.
needs_drop_never(T) ==
    FALSE

\* std::mem::needs_drop::<T>()
needs_drop(T) ==
    T = "Vec"

BlockIds ==
    1 .. MaxStack

\* A stack slot holding the number n, and the nil any slot above the top
\* holds on a stack that has only been pushed to.
NumberValue(n) ==
    [t |-> "number", p |-> n]

NilValue ==
    [t |-> "nil", p |-> 0]

UserdataValue(b) ==
    [t |-> "userdata", p |-> b]

\* The VM's resolution of an acceptable index to a slot: positive from the
\* bottom, negative from the top; index 0 and anything outside is the nil
\* above the top.
index2value(stk, i) ==
    IF i > 0 /\ i <= Len(stk)
    THEN stk[i]
    ELSE IF i < 0 /\ -i <= Len(stk)
         THEN stk[Len(stk) + i + 1]
         ELSE NilValue

\* lua_touserdatatagged(state, idx, UD_TAG): the block, or null (0) when the
\* value is not a userdata with the tag.
lua_touserdatatagged(stk, i) ==
    IF index2value(stk, i).t = "userdata" THEN index2value(stk, i).p ELSE 0

\* Userdata::is::<V>() answering true whatever the stored TypeId.
Userdata_is_any(block, V) ==
    TRUE

\* Userdata::is::<V>()
Userdata_is(block, V) ==
    block.id = V

\* Luau::get_userdata_ptr::<T>(idx): Some(ptr), None (ptr = 0), or the panic
\* of the stack precondition.
get_userdata_ptr(stk, uds, T, i) ==
    IF luau_stack_precondition(check_index(i, Len(stk)))
    THEN [panic |-> TRUE, ptr |-> 0]
    ELSE LET userdata_ptr == lua_touserdatatagged(stk, i)
         IN  IF userdata_ptr # 0 /\ Userdata_is(uds[userdata_ptr], T)
             THEN [panic |-> FALSE, ptr |-> userdata_ptr]
             ELSE [panic |-> FALSE, ptr |-> 0]

\* UserdataRef::try_from_ptr that never looks for an exclusive guard.
UserdataRef_try_from_ptr_unchecked(v) ==
    [res |-> "Ok", cell |-> v + 1]

\* UserdataRef::try_from_ptr on a cell holding v: the result and the cell after.
UserdataRef_try_from_ptr(v) ==
    IF v = -1
    THEN [res |-> "AlreadyMutable", cell |-> v]
    ELSE [res |-> "Ok", cell |-> v + 1]

\* Drop for UserdataRef that frees the cell whatever it counted.
UserdataRef_drop_reset(v) ==
    0

\* Drop for UserdataRef: the cell after.
UserdataRef_drop(v) ==
    v - 1

\* UserdataRefMut::try_from_ptr writing the exclusive mark even when it fails.
UserdataRefMut_try_from_ptr_marking(v) ==
    IF v = 0
    THEN [res |-> "Ok", cell |-> -1]
    ELSE IF v = -1
         THEN [res |-> "AlreadyMutable", cell |-> -1]
         ELSE [res |-> "AlreadyImmutable", cell |-> -1]

\* UserdataRefMut::try_from_ptr on a cell holding v.
UserdataRefMut_try_from_ptr(v) ==
    IF v = 0
    THEN [res |-> "Ok", cell |-> -1]
    ELSE IF v = -1
         THEN [res |-> "AlreadyMutable", cell |-> v]
         ELSE [res |-> "AlreadyImmutable", cell |-> v]

\* Drop for UserdataRefMut that decrements the cell as a shared guard does.
UserdataRefMut_drop_decrement(v) ==
    v - 1

\* Drop for UserdataRefMut: the cell after.
UserdataRefMut_drop(v) ==
    0

GuardsHeld ==
    LET RECURSIVE Sum(_)
        Sum(b) == IF b = 0 THEN 0 ELSE refGuards[b] + mutGuards[b] + Sum(b - 1)
    IN  Sum(MaxStack)

BorrowIdxInputs ==
    (-(MaxStack + 1)) .. (MaxStack + 1)

\* The numbers the host pushes.
Numbers ==
    {1, 2}

\* What a stack operation leaves for the host to see: the operation, how it
\* ended, the number, index or heap id it was given or gave back; for a call
\* the argument count, the closure entered, whether the trampoline found the
\* boxed closure, and what the closure read from its upvalues; for a field
\* access the key and the value the foreign call took for the table.
Ret(o, r, v) ==
    [op |-> o, res |-> r, val |-> v,
     nargs |-> 0, callee |-> 0, box |-> FALSE, reads |-> <<>>,
     key |-> 0, target |-> NilValue]

\* The registry and the globals table of a new VM, both empty.
RegistryTable ==
    1

GlobalsTable ==
    2

BorrowIdle ==
    /\ stack = <<>>
    /\ userdata = <<>>
    /\ refGuards = [b \in BlockIds |-> 0]
    /\ mutGuards = [b \in BlockIds |-> 0]
    /\ last = [op |-> "none", ptr |-> 0, res |-> "none"]

\* Luau::default(): an empty stack and no embedded value.
BorrowInit ==
    BorrowIdle

\* The field names the host uses as table keys.
Keys ==
    {1}

TableIds ==
    1 .. (GlobalsTable + MaxTables)

\* lua_newstate: the registry and the globals table exist and are empty, no
\* closure, no embedded object, the owning root alive.
VmIdle ==
    /\ ret = Ret("none", "none", 0)
    /\ tables = <<[k \in Keys |-> NilValue], [k \in Keys |-> NilValue]>>
    /\ closures = <<>>
    /\ luau = "alive"
    /\ embedded = <<>>
    /\ reclaim = [b \in BlockIds |-> [hook |-> 0, teardown |-> 0]]

\* Luau::push_userdata(object: T)
push_userdata(object) ==
    /\ luau = "alive"
    /\ Len(stack) < MaxStack
    /\ Len(userdata) < MaxStack
    /\ ~luau_stack_precondition(check_stack(Len(stack), 1))
    /\ userdata' = Append(userdata,
                          [id |-> type_id(object),
                           count_cell |-> 0,
                           dtor |-> needs_drop(type_id(object)),
                           inner |-> object])
    /\ stack' = Append(stack, UserdataValue(Len(userdata) + 1))
    /\ last' = [op |-> "push_userdata", ptr |-> Len(userdata) + 1, res |-> "Ok"]
    /\ embedded' = Append(embedded, object)
    /\ ret' = Ret("push_userdata", "Ok", Len(userdata) + 1)
    /\ UNCHANGED <<refGuards, mutGuards>>
    /\ UNCHANGED <<tables, closures, luau, reclaim>>
    /\ UNCHANGED <<varsIndex, varsLife, varsHost, varsPure>>

\* Luau::push_number(n)
push_number(n) ==
    /\ luau = "alive"
    /\ Len(stack) < MaxStack
    /\ ~luau_stack_precondition(check_stack(Len(stack), 1))
    /\ stack' = Append(stack, NumberValue(n))
    /\ last' = [op |-> "push_number", ptr |-> 0, res |-> "Ok"]
    /\ ret' = Ret("push_number", "Ok", n)
    /\ UNCHANGED <<userdata, refGuards, mutGuards>>
    /\ UNCHANGED <<tables, closures, luau, embedded, reclaim>>
    /\ UNCHANGED <<varsIndex, varsLife, varsHost, varsPure>>

\* Luau::try_borrow_userdata::<T>(idx); an Ok(guard) stays with the caller.
try_borrow_userdata(T, i) ==
    /\ luau = "alive"
    /\ GuardsHeld < MaxGuards
    /\ LET g == get_userdata_ptr(stack, userdata, T, i)
       IN  IF g.panic
           THEN /\ last' = [op |-> "try_borrow_userdata", ptr |-> 0, res |-> "panic"]
                /\ UNCHANGED <<userdata, refGuards>>
           ELSE IF g.ptr = 0
           THEN /\ last' = [op |-> "try_borrow_userdata", ptr |-> 0, res |-> "None"]
                /\ UNCHANGED <<userdata, refGuards>>
           ELSE LET r == UserdataRef_try_from_ptr(userdata[g.ptr].count_cell)
                IN  /\ userdata' = [userdata EXCEPT ![g.ptr].count_cell = r.cell]
                    /\ refGuards' = IF r.res = "Ok"
                                    THEN [refGuards EXCEPT ![g.ptr] = @ + 1]
                                    ELSE refGuards
                    /\ last' = [op |-> "try_borrow_userdata", ptr |-> g.ptr, res |-> r.res]
    /\ UNCHANGED <<stack, mutGuards>>
    /\ UNCHANGED <<varsIndex, varsLife, varsVm, varsHost, varsPure>>

\* Luau::try_borrow_userdata_mut::<T>(idx)
try_borrow_userdata_mut(T, i) ==
    /\ luau = "alive"
    /\ GuardsHeld < MaxGuards
    /\ LET g == get_userdata_ptr(stack, userdata, T, i)
       IN  IF g.panic
           THEN /\ last' = [op |-> "try_borrow_userdata_mut", ptr |-> 0, res |-> "panic"]
                /\ UNCHANGED <<userdata, mutGuards>>
           ELSE IF g.ptr = 0
           THEN /\ last' = [op |-> "try_borrow_userdata_mut", ptr |-> 0, res |-> "None"]
                /\ UNCHANGED <<userdata, mutGuards>>
           ELSE LET r == UserdataRefMut_try_from_ptr(userdata[g.ptr].count_cell)
                IN  /\ userdata' = [userdata EXCEPT ![g.ptr].count_cell = r.cell]
                    /\ mutGuards' = IF r.res = "Ok"
                                    THEN [mutGuards EXCEPT ![g.ptr] = @ + 1]
                                    ELSE mutGuards
                    /\ last' = [op |-> "try_borrow_userdata_mut", ptr |-> g.ptr, res |-> r.res]
    /\ UNCHANGED <<stack, refGuards>>
    /\ UNCHANGED <<varsIndex, varsLife, varsVm, varsHost, varsPure>>

\* A UserdataRef held by the caller goes out of scope.
drop_UserdataRef(b) ==
    /\ refGuards[b] > 0
    /\ userdata' = [userdata EXCEPT ![b].count_cell = UserdataRef_drop(@)]
    /\ refGuards' = [refGuards EXCEPT ![b] = @ - 1]
    /\ last' = [op |-> "drop_UserdataRef", ptr |-> b, res |-> "Ok"]
    /\ UNCHANGED <<stack, mutGuards>>
    /\ UNCHANGED <<varsIndex, varsLife, varsVm, varsHost, varsPure>>

\* A UserdataRefMut held by the caller goes out of scope.
drop_UserdataRefMut(b) ==
    /\ mutGuards[b] > 0
    /\ userdata' = [userdata EXCEPT ![b].count_cell = UserdataRefMut_drop(@)]
    /\ mutGuards' = [mutGuards EXCEPT ![b] = @ - 1]
    /\ last' = [op |-> "drop_UserdataRefMut", ptr |-> b, res |-> "Ok"]
    /\ UNCHANGED <<stack, refGuards>>
    /\ UNCHANGED <<varsIndex, varsLife, varsVm, varsHost, varsPure>>

\* Luau::is_userdata::<T>(idx)
is_userdata(T, i) ==
    /\ luau = "alive"
    /\ IF luau_stack_precondition(check_index(i, Len(stack)))
       THEN last' = [op |-> "is_userdata", ptr |-> 0, res |-> "panic"]
       ELSE LET userdata_ptr == lua_touserdatatagged(stack, i)
            IN  IF userdata_ptr # 0 /\ Userdata_is(userdata[userdata_ptr], T)
                THEN last' = [op |-> "is_userdata", ptr |-> userdata_ptr, res |-> "true"]
                ELSE last' = [op |-> "is_userdata", ptr |-> 0, res |-> "false"]
    /\ UNCHANGED <<stack, userdata, refGuards, mutGuards>>
    /\ UNCHANGED <<varsIndex, varsLife, varsVm, varsHost, varsPure>>

\* Luau::borrow_userdata::<T>(idx): try_borrow_userdata(idx).map(Result::unwrap)
borrow_userdata(T, i) ==
    /\ luau = "alive"
    /\ GuardsHeld < MaxGuards
    /\ LET g == get_userdata_ptr(stack, userdata, T, i)
       IN  IF g.panic
           THEN /\ last' = [op |-> "borrow_userdata", ptr |-> 0, res |-> "panic"]
                /\ UNCHANGED <<userdata, refGuards>>
           ELSE IF g.ptr = 0
           THEN /\ last' = [op |-> "borrow_userdata", ptr |-> 0, res |-> "None"]
                /\ UNCHANGED <<userdata, refGuards>>
           ELSE LET r == UserdataRef_try_from_ptr(userdata[g.ptr].count_cell)
                IN  /\ userdata' = [userdata EXCEPT ![g.ptr].count_cell = r.cell]
                    /\ refGuards' = IF r.res = "Ok"
                                    THEN [refGuards EXCEPT ![g.ptr] = @ + 1]
                                    ELSE refGuards
                    /\ last' = [op |-> "borrow_userdata", ptr |-> g.ptr,
                                res |-> IF r.res = "Ok" THEN "Some" ELSE "unwrap_panic"]
    /\ UNCHANGED <<stack, mutGuards>>
    /\ UNCHANGED <<varsIndex, varsLife, varsVm, varsHost, varsPure>>

\* Drop for Luau on the owning root of the stack: lua_close is entered and
\* starts to free every block of the VM heap.
drop_Luau ==
    /\ luau = "alive"
    /\ luau' = "closing"
    /\ last' = [op |-> "drop_Luau", ptr |-> 0, res |-> "Ok"]
    /\ UNCHANGED <<ret, tables, closures, embedded, reclaim>>
    /\ UNCHANGED varsBorrowHeap
    /\ UNCHANGED <<varsIndex, varsLife, varsHost, varsPure>>

\* dtor_rs_luau_userdata_callback(state, v): the hook set for UD_TAG, called
\* by the VM when it frees the block v; it runs the stored dtor, if any, and
\* drop_userdata::<T> runs drop_in_place on the payload.
dtor_rs_luau_userdata_callback(v) ==
    /\ luau = "closing"
    /\ v <= Len(userdata)
    /\ reclaim[v].hook = 0
    /\ reclaim' = [reclaim EXCEPT
                     ![v] = [hook |-> @.hook + 1,
                             teardown |-> IF userdata[v].dtor
                                          THEN @.teardown + 1
                                          ELSE @.teardown]]
    /\ last' = [op |-> "dtor_rs_luau_userdata_callback", ptr |-> v, res |-> "Ok"]
    /\ UNCHANGED <<ret, tables, closures, luau, embedded>>
    /\ UNCHANGED varsBorrowHeap
    /\ UNCHANGED <<varsIndex, varsLife, varsHost, varsPure>>

\* lua_close returns once every block is freed, and Drop for Luau ends.
drop_Luau_return ==
    /\ luau = "closing"
    /\ \A b \in 1 .. Len(userdata) : reclaim[b].hook > 0
    /\ luau' = "dropped"
    /\ last' = [op |-> "drop_Luau_return", ptr |-> 0, res |-> "Ok"]
    /\ UNCHANGED <<ret, tables, closures, embedded, reclaim>>
    /\ UNCHANGED varsBorrowHeap
    /\ UNCHANGED <<varsIndex, varsLife, varsHost, varsPure>>

(***************************************************************************)
(* ExecutionContextLifetime: AssociatedData::main_thread_rc, LuauThread    *)
(* and Drop for Luau.                                                      *)
(***************************************************************************)
Roots ==
    1 .. NumRoots

HandleIds ==
    1 .. MaxHandles

NoHandle ==
    [held |-> FALSE, root_check |-> 0, thread_vm |-> 0]

\* Drop for Luau with the release of the associated data moved before lua_close.
DropOrder_release_first ==
    <<"mark_dead", "release_associated", "lua_close">>

\* Drop for Luau that never marks the main thread dead.
DropOrder_no_mark ==
    <<"lua_close", "release_associated">>

\* The statements of Drop for Luau on an owning root, in program order:
\* main_thread_rc.set(false); lua_close(state); associated_owned released at
\* the end of the block.
DropOrder ==
    <<"mark_dead", "lua_close", "release_associated">>

\* Drop for Luau with the test of `owned` inverted.
Luau_drop_runs_inverted(owned) ==
    ~owned

\* Drop for Luau without the early return for a non-owning value.
Luau_drop_runs_always(owned) ==
    TRUE

\* `if !self.owned { return; }`: does Drop for Luau go on to destroy?
Luau_drop_runs(owned) ==
    owned

Dropped(r) ==
    rootpc[r] = Len(DropOrder)

NextStatement(r) ==
    IF rootpc[r] < Len(DropOrder) THEN DropOrder[rootpc[r] + 1] ELSE "none"

\* Luau::get_associated() handing out the first root's AssociatedData to all.
get_associated_first(v) ==
    1

\* Luau::get_associated(): lua_getallocf gives the AssociatedData of the VM
\* the state belongs to, whichever of its threads the state is.
get_associated(v) ==
    v

\* LuauThread::try_get_state on a handle
try_get_state(handle) ==
    IF main_thread_rc[handle.root_check] = FALSE
    THEN "MainStateDeadError"
    ELSE "Ok"

\* LuauThread::get_state: try_get_state().unwrap()
get_state(handle) ==
    IF try_get_state(handle) = "Ok" THEN "Ok" ELSE "panic"

\* LuauThread::from_ptr(thread_ptr, root_check)
LuauThread_from_ptr(v, rc) ==
    [held |-> TRUE, root_check |-> rc, thread_vm |-> v]

FreeHandle(h) ==
    /\ ~handles[h].held
    /\ \A g \in HandleIds : g < h => handles[g].held

LifeIdle ==
    /\ rootpc = [r \in Roots |-> 0]
    /\ main_thread_rc = [r \in Roots |-> TRUE]
    /\ associated = [r \in Roots |-> TRUE]
    /\ vm = [r \in Roots |-> "open"]
    /\ handles = [h \in HandleIds |-> NoHandle]
    /\ access = [op |-> "none", h |-> 0, root |-> 0, res |-> "none"]

\* Luau::new for every root: main_thread_rc is Rc::new(Cell::new(true)).
LifeInit ==
    LifeIdle

\* Luau::push_thread on the root itself
push_thread(r, h) ==
    /\ rootpc[r] = 0
    /\ FreeHandle(h)
    /\ handles' = [handles EXCEPT
                     ![h] = LuauThread_from_ptr(r, get_associated(r))]
    /\ access' = [op |-> "push_thread", h |-> h, root |-> r, res |-> "Ok"]
    /\ UNCHANGED <<rootpc, main_thread_rc, associated, vm>>
    /\ UNCHANGED <<varsIndex, varsBorrow, varsVm, varsHost, varsPure>>

\* thread.get_state().push_thread(): a thread spawned from a secondary context
push_thread_from_thread(g, h) ==
    /\ handles[g].held
    /\ get_state(handles[g]) = "Ok"
    /\ FreeHandle(h)
    /\ handles' = [handles EXCEPT
                     ![h] = LuauThread_from_ptr(handles[g].thread_vm,
                                                get_associated(handles[g].thread_vm))]
    /\ access' = [op |-> "push_thread", h |-> h, root |-> handles[g].thread_vm,
                  res |-> "Ok"]
    /\ UNCHANGED <<rootpc, main_thread_rc, associated, vm>>
    /\ UNCHANGED <<varsIndex, varsBorrow, varsVm, varsHost, varsPure>>

\* Luau::get_thread(idx) on the root: None when lua_tothread gives null
get_thread(r, h, is_thread) ==
    /\ rootpc[r] = 0
    /\ FreeHandle(h)
    /\ IF is_thread
       THEN /\ handles' = [handles EXCEPT
                             ![h] = LuauThread_from_ptr(r, get_associated(r))]
            /\ access' = [op |-> "get_thread", h |-> h, root |-> r, res |-> "Some"]
       ELSE /\ handles' = handles
            /\ access' = [op |-> "get_thread", h |-> 0, root |-> r, res |-> "None"]
    /\ UNCHANGED <<rootpc, main_thread_rc, associated, vm>>
    /\ UNCHANGED <<varsIndex, varsBorrow, varsVm, varsHost, varsPure>>

\* LuauThread::try_get_state
call_try_get_state(h) ==
    /\ handles[h].held
    /\ access' = [op |-> "try_get_state", h |-> h, root |-> handles[h].thread_vm,
                  res |-> try_get_state(handles[h])]
    /\ UNCHANGED <<rootpc, main_thread_rc, associated, vm, handles>>
    /\ UNCHANGED <<varsIndex, varsBorrow, varsVm, varsHost, varsPure>>

\* LuauThread::get_state
call_get_state(h) ==
    /\ handles[h].held
    /\ access' = [op |-> "get_state", h |-> h, root |-> handles[h].thread_vm,
                  res |-> get_state(handles[h])]
    /\ UNCHANGED <<rootpc, main_thread_rc, associated, vm, handles>>
    /\ UNCHANGED <<varsIndex, varsBorrow, varsVm, varsHost, varsPure>>

\* A LuauThread goes out of scope: its Rc clone is released, nothing else.
drop_LuauThread(h) ==
    /\ handles[h].held
    /\ handles' = [handles EXCEPT ![h] = NoHandle]
    /\ access' = [op |-> "drop_LuauThread", h |-> h, root |-> 0, res |-> "Ok"]
    /\ UNCHANGED <<rootpc, main_thread_rc, associated, vm>>
    /\ UNCHANGED <<varsIndex, varsBorrow, varsVm, varsHost, varsPure>>

\* Drop for Luau on a non-owning view (Luau::from_ptr) of a live VM
drop_view(r) ==
    /\ rootpc[r] = 0
    /\ IF Luau_drop_runs(FALSE)
       THEN /\ main_thread_rc' = [main_thread_rc EXCEPT ![r] = FALSE]
            /\ vm' = [vm EXCEPT ![r] = "closed"]
            /\ associated' = [associated EXCEPT ![r] = FALSE]
       ELSE UNCHANGED <<main_thread_rc, vm, associated>>
    /\ access' = [op |-> "drop_view", h |-> 0, root |-> r, res |-> "Ok"]
    /\ UNCHANGED <<rootpc, handles>>
    /\ UNCHANGED <<varsIndex, varsBorrow, varsVm, varsHost, varsPure>>

\* Drop for Luau on the owning root: associated_owned.main_thread_rc.set(false)
drop_mark_dead(r) ==
    /\ Luau_drop_runs(TRUE)
    /\ NextStatement(r) = "mark_dead"
    /\ main_thread_rc' = [main_thread_rc EXCEPT ![r] = FALSE]
    /\ rootpc' = [rootpc EXCEPT ![r] = @ + 1]
    /\ access' = [op |-> "drop_mark_dead", h |-> 0, root |-> r, res |-> "Ok"]
    /\ UNCHANGED <<associated, vm, handles>>
    /\ UNCHANGED <<varsIndex, varsBorrow, varsVm, varsHost, varsPure>>

\* Drop for Luau on the owning root: lua_close(self.state) is entered
drop_lua_close_call(r) ==
    /\ Luau_drop_runs(TRUE)
    /\ NextStatement(r) = "lua_close"
    /\ vm[r] = "open"
    /\ vm' = [vm EXCEPT ![r] = "closing"]
    /\ access' = [op |-> "lua_close_call", h |-> 0, root |-> r, res |-> "Ok"]
    /\ UNCHANGED <<rootpc, main_thread_rc, associated, handles>>
    /\ UNCHANGED <<varsIndex, varsBorrow, varsVm, varsHost, varsPure>>

\* ... and returns
drop_lua_close_return(r) ==
    /\ NextStatement(r) = "lua_close"
    /\ vm[r] = "closing"
    /\ vm' = [vm EXCEPT ![r] = "closed"]
    /\ rootpc' = [rootpc EXCEPT ![r] = @ + 1]
    /\ access' = [op |-> "lua_close_return", h |-> 0, root |-> r, res |-> "Ok"]
    /\ UNCHANGED <<main_thread_rc, associated, handles>>
    /\ UNCHANGED <<varsIndex, varsBorrow, varsVm, varsHost, varsPure>>

\* Drop for Luau on the owning root: associated_owned goes out of scope
drop_release_associated(r) ==
    /\ Luau_drop_runs(TRUE)
    /\ NextStatement(r) = "release_associated"
    /\ associated' = [associated EXCEPT ![r] = FALSE]
    /\ rootpc' = [rootpc EXCEPT ![r] = @ + 1]
    /\ access' = [op |-> "drop_release_associated", h |-> 0, root |-> r, res |-> "Ok"]
    /\ UNCHANGED <<main_thread_rc, vm, handles>>
    /\ UNCHANGED <<varsIndex, varsBorrow, varsVm, varsHost, varsPure>>

\* luau_alloc_cb called by the VM: while it runs for the host, and from
\* inside lua_close; it dereferences the AssociatedData.
luau_alloc_cb(r) ==
    /\ IF vm[r] = "open" THEN rootpc[r] = 0 ELSE vm[r] = "closing"
    /\ access' = [op |-> "luau_alloc_cb", h |-> 0, root |-> r,
                  res |-> IF associated[r] THEN "Ok" ELSE "use_after_free"]
    /\ UNCHANGED <<rootpc, main_thread_rc, associated, vm, handles>>
    /\ UNCHANGED <<varsIndex, varsBorrow, varsVm, varsHost, varsPure>>

\* The host runs between calls of the library: no Drop for Luau is under way.
HostRuns ==
    \A r \in Roots : rootpc[r] = 0 \/ Dropped(r)

\* let state = thread.get_state(); the &Luau stays with the host.  It
\* borrows the LuauThread, and nothing of the root.
keep_state(h) ==
    /\ HostRuns
    /\ handles[h].held
    /\ h \notin state_refs
    /\ state_refs' = IF get_state(handles[h]) = "Ok"
                     THEN state_refs \cup {h}
                     ELSE state_refs
    /\ access' = [op |-> "keep_state", h |-> h, root |-> handles[h].thread_vm,
                  res |-> get_state(handles[h])]
    /\ UNCHANGED <<created, app_data, app>>
    /\ UNCHANGED <<varsIndex, varsBorrow, varsLifeState, varsVm, varsPure>>

\* A stack operation (Luau::push_nil, Luau::top, ...) through a &Luau the
\* host holds: the foreign call on self.state is made with no liveness test.
use_state(h) ==
    /\ HostRuns
    /\ h \in state_refs
    /\ access' = [op |-> "stack_op", h |-> h, root |-> handles[h].thread_vm,
                  res |-> IF vm[handles[h].thread_vm] = "open"
                          THEN "Ok"
                          ELSE "use_after_free"]
    /\ UNCHANGED <<created, app_data, app, state_refs>>
    /\ UNCHANGED <<varsIndex, varsBorrow, varsLifeState, varsVm, varsPure>>

\* The &Luau goes out of scope.
release_state(h) ==
    /\ HostRuns
    /\ h \in state_refs
    /\ state_refs' = state_refs \ {h}
    /\ access' = [op |-> "release_state", h |-> h, root |-> handles[h].thread_vm,
                  res |-> "Ok"]
    /\ UNCHANGED <<created, app_data, app>>
    /\ UNCHANGED <<varsIndex, varsBorrow, varsLifeState, varsVm, varsPure>>

\* Luau::resume(&self, luau_thread, nargs) on the live root r:
\* lua_resume(luau_thread.get_state().state, self.state, nargs)
resume(r, h) ==
    /\ HostRuns
    /\ rootpc[r] = 0
    /\ handles[h].held
    /\ access' = [op |-> "resume", h |-> h, root |-> handles[h].thread_vm,
                  res |-> IF get_state(handles[h]) = "Ok"
                          THEN IF vm[handles[h].thread_vm] = "open"
                               THEN "lua_resume"
                               ELSE "use_after_free"
                          ELSE "panic"]
    /\ UNCHANGED <<created, app_data, app, state_refs>>
    /\ UNCHANGED <<varsIndex, varsBorrow, varsLifeState, varsVm, varsPure>>

(***************************************************************************)
(* The stack API over values: numbers, tables and host functions.          *)
(***************************************************************************)
\* lua_settop emptying the stack whatever the index.
lua_settop_clear(stk, i) ==
    <<>>

\* lua_settop(state, idx): the stack top becomes idx (new slots nil) for
\* idx >= 0, and moves down by -(idx + 1) slots for a negative idx.
lua_settop(stk, i) ==
    IF i >= 0
    THEN IF i <= Len(stk)
         THEN SubSeq(stk, 1, i)
         ELSE stk \o [j \in 1 .. (i - Len(stk)) |-> NilValue]
    ELSE SubSeq(stk, 1, Len(stk) + i + 1)

\* lua_tonumberx(state, idx, &is_number)
lua_tonumberx(stk, i) ==
    IF index2value(stk, i).t = "number"
    THEN [is_number |-> 1, number |-> index2value(stk, i).p]
    ELSE [is_number |-> 0, number |-> 0]

\* The stack indices handed to the queries: every slot from either end and
\* one beyond.  Index 0 is the slot above the top, which holds what the last
\* pop left there; it is not drawn.
StackIdxInputs ==
    BorrowIdxInputs \ {0}

\* The counts handed to pop: from below zero to one more than the stack holds,
\* and the smallest count whose negation is a pseudo-index.
PopInputs ==
    ((-(MaxStack + 1)) .. (MaxStack + 1)) \cup {-LUA_REGISTRYINDEX}

\* Luau::push_nil()
push_nil ==
    /\ luau = "alive"
    /\ Len(stack) < MaxStack
    /\ ~luau_stack_precondition(check_stack(Len(stack), 1))
    /\ stack' = Append(stack, NilValue)
    /\ ret' = Ret("push_nil", "Ok", 0)
    /\ UNCHANGED <<userdata, refGuards, mutGuards, last>>
    /\ UNCHANGED <<tables, closures, luau, embedded, reclaim>>
    /\ UNCHANGED <<varsIndex, varsLife, varsHost, varsPure>>

\* Luau::to_number(idx)
to_number(i) ==
    /\ luau = "alive"
    /\ IF luau_stack_precondition(check_index(i, Len(stack)))
       THEN ret' = Ret("to_number", "panic", 0)
       ELSE IF lua_tonumberx(stack, i).is_number = 1
            THEN ret' = Ret("to_number", "Some", lua_tonumberx(stack, i).number)
            ELSE ret' = Ret("to_number", "None", 0)
    /\ UNCHANGED <<tables, closures, luau, embedded, reclaim>>
    /\ UNCHANGED <<varsIndex, varsBorrow, varsLife, varsHost, varsPure>>

\* Luau::pop(n)
pop(n) ==
    /\ luau = "alive"
    /\ IF luau_stack_precondition(check_index(-n, Len(stack)))
       THEN /\ ret' = Ret("pop", "panic", n)
            /\ stack' = stack
            /\ luau' = luau
       ELSE IF n <= Len(stack)
       THEN /\ ret' = Ret("pop", "Ok", n)
            /\ stack' = lua_settop(stack, -(n + 1))
            /\ luau' = luau
       ELSE \E outcome \in {"crash", "below_bottom"} :
                /\ ret' = Ret("pop", outcome, n)
                /\ stack' = <<>>
                /\ luau' = "undefined"
    /\ UNCHANGED <<userdata, refGuards, mutGuards, last>>
    /\ UNCHANGED <<tables, closures, embedded, reclaim>>
    /\ UNCHANGED <<varsIndex, varsLife, varsHost, varsPure>>

\* Values of the other kinds: a C closure, the light userdata holding the
\* Box::into_raw pointer of the closure boxed for it, a string, a table.
FunctionValue(c) ==
    [t |-> "function", p |-> c]

LightUserdataValue(b) ==
    [t |-> "lightuserdata", p |-> b]

StringValue(k) ==
    [t |-> "string", p |-> k]

TableValue(tb) ==
    [t |-> "table", p |-> tb]

\* lua_pushcclosurek(state, func, name, nup, cont): the nup values on top of
\* the stack become the upvalues of the new closure, the first pushed being
\* upvalue 1, and are popped.
lua_pushcclosurek(stk, nup) ==
    [upvals |-> SubSeq(stk, Len(stk) - nup + 1, Len(stk)),
     rest |-> SubSeq(stk, 1, Len(stk) - nup)]

\* The value at lua_upvalueindex(i) while the closure cl runs.
index2upvalue(cl, i) ==
    IF i >= 1 /\ i <= Len(cl.upvals) THEN cl.upvals[i] ELSE NilValue

\* lua_tolightuserdata on a value: the pointer, or null (0).
lua_tolightuserdata(v) ==
    IF v.t = "lightuserdata" THEN v.p ELSE 0

\* invoke_fn::<F>, the trampoline of push_function: it takes the boxed closure
\* from lua_upvalueindex(1).
invoke_fn_box(cl) ==
    lua_tolightuserdata(index2upvalue(cl, 1))

\* What the host closure of the tests reads: to_number(upvalue(i)) for each
\* of the num_upvals upvalues it was given.
func_reads(cl) ==
    [i \in 1 .. cl.num_upvals |-> index2upvalue(cl, i)]

\* Luau::push_function(func, debug_name, num_upvals), with push_raw_function
\* as called by it.
push_function(num_upvals) ==
    /\ luau = "alive"
    /\ Len(closures) < MaxClosures
    /\ Len(stack) - num_upvals + 1 <= MaxStack
    /\ IF ~(Len(stack) >= num_upvals)
       THEN /\ ret' = Ret("push_function", "assert_panic", num_upvals)
            /\ UNCHANGED <<stack, closures>>
       ELSE IF luau_stack_precondition(check_stack(Len(stack), 2))
       THEN /\ ret' = Ret("push_function", "panic", num_upvals)
            /\ UNCHANGED <<stack, closures>>
       ELSE LET func_box == Len(closures) + 1
                pushed == Append(stack, LightUserdataValue(func_box))
            IN  IF luau_stack_precondition(check_stack(Len(pushed), 1))
                THEN /\ ret' = Ret("push_function", "panic", num_upvals)
                     /\ stack' = pushed
                     /\ closures' = closures
                ELSE IF ~(Len(pushed) >= 1 + num_upvals)
                THEN /\ ret' = Ret("push_function", "assert_panic", num_upvals)
                     /\ stack' = pushed
                     /\ closures' = closures
                ELSE LET cl == lua_pushcclosurek(pushed, 1 + num_upvals)
                     IN  /\ closures' = Append(closures,
                                               [upvals |-> cl.upvals,
                                                num_upvals |-> num_upvals,
                                                func_box |-> func_box])
                         /\ stack' = Append(cl.rest, FunctionValue(Len(closures) + 1))
                         /\ ret' = Ret("push_function", "Ok", num_upvals)
    /\ UNCHANGED <<userdata, refGuards, mutGuards, last>>
    /\ UNCHANGED <<tables, luau, embedded, reclaim>>
    /\ UNCHANGED <<varsIndex, varsLife, varsHost, varsPure>>

\* lua_pcall(state, nargs, nresults, 0) on a stack that holds the callee and
\* its nargs arguments: the callee and the arguments are removed; a callee
\* that is no function gives LUA_ERRRUN and the error message; a closure of
\* push_function runs its trampoline.  A trampoline that finds no box calls
\* through a null pointer: the closure may run all the same or the process
\* dies.
lua_pcall(stk, nargs, nresults, lucky) ==
    LET below == SubSeq(stk, 1, Len(stk) - nargs - 1)
        f == stk[Len(stk) - nargs]
    IN  IF f.t # "function"
        THEN [res |-> "LUA_ERRRUN", stk |-> Append(below, StringValue(0)),
              callee |-> 0, box |-> FALSE, reads |-> <<>>]
        ELSE LET cl == closures[f.p]
             IN  IF invoke_fn_box(cl) = cl.func_box
                 THEN [res |-> "LUA_OK",
                       stk |-> below \o [j \in 1 .. nresults |-> NilValue],
                       callee |-> f.p, box |-> TRUE, reads |-> func_reads(cl)]
                 ELSE IF lucky
                 THEN [res |-> "LUA_OK",
                       stk |-> below \o [j \in 1 .. nresults |-> NilValue],
                       callee |-> f.p, box |-> FALSE, reads |-> func_reads(cl)]
                 ELSE [res |-> "crash", stk |-> stk,
                       callee |-> f.p, box |-> FALSE, reads |-> <<>>]

\* Luau::call(nargs, nresults)
call(nargs, nresults) ==
    /\ luau = "alive"
    /\ Len(stack) - nargs - 1 + nresults <= MaxStack
    /\ IF luau_stack_precondition(check_index(-1, Len(stack)))
       THEN /\ ret' = [Ret("call", "panic", nresults) EXCEPT !.nargs = nargs]
            /\ stack' = stack
       ELSE IF ~(index2value(stack, -1).t = "function")
       THEN /\ ret' = [Ret("call", "assert_panic", nresults) EXCEPT !.nargs = nargs]
            /\ stack' = stack
       ELSE IF ~(Len(stack) >= nargs)
       THEN /\ ret' = [Ret("call", "assert_panic", nresults) EXCEPT !.nargs = nargs]
            /\ stack' = stack
       ELSE IF luau_stack_precondition(check_stack(Len(stack), nresults))
       THEN /\ ret' = [Ret("call", "panic", nresults) EXCEPT !.nargs = nargs]
            /\ stack' = stack
       ELSE IF Len(stack) - nargs < 1
       THEN \* the callee slot lies below the stack: anything the VM finds there
            \E outcome \in {"LUA_ERRRUN", "crash"} :
                /\ ret' = [Ret("call", outcome, nresults) EXCEPT !.nargs = nargs]
                /\ stack' = IF outcome = "LUA_ERRRUN" THEN <<StringValue(0)>> ELSE stack
       ELSE \E lucky \in BOOLEAN :
                LET r == lua_pcall(stack, nargs, nresults, lucky)
                IN  /\ ret' = [Ret("call", r.res, nresults) EXCEPT
                                 !.nargs = nargs, !.callee = r.callee,
                                 !.box = r.box, !.reads = r.reads]
                    /\ stack' = r.stk
    /\ UNCHANGED <<userdata, refGuards, mutGuards, last>>
    /\ UNCHANGED <<tables, closures, luau, embedded, reclaim>>
    /\ UNCHANGED <<varsIndex, varsLife, varsHost, varsPure>>

\* The VM's resolution of any acceptable index: a stack slot, the registry,
\* the globals table (which is also the environment while no function runs),
\* or an upvalue of the running function, of which there is none.
index2addr(stk, i) ==
    IF i > LUA_REGISTRYINDEX
    THEN index2value(stk, i)
    ELSE IF i = LUA_REGISTRYINDEX
         THEN TableValue(RegistryTable)
         ELSE IF i = LUA_ENVIRONINDEX \/ i = LUA_GLOBALSINDEX
              THEN TableValue(GlobalsTable)
              ELSE NilValue

\* lua_insert(state, idx): the top element moves into the slot idx, the
\* elements from there on shift up.
lua_insert(stk, i) ==
    LET at == IF i < 0 THEN Len(stk) + i + 1 ELSE i
    IN  SubSeq(stk, 1, at - 1) \o <<stk[Len(stk)]>> \o SubSeq(stk, at, Len(stk) - 1)

\* The index set_field hands to set_table after the key is pushed.
set_field_index(i, t) ==
    IF i < 0 \/ i = t THEN i - 1 ELSE i

\* The index get_field hands to get_table after the key is pushed.
get_field_index(i) ==
    IF i < 0 THEN i - 1 ELSE i

\* The indices handed to the field accessors: the stack indices, and the
\* pseudo-indices Luau::registry() and Luau::globals() return.
TableIdxInputs ==
    StackIdxInputs \cup {LUA_REGISTRYINDEX, LUA_GLOBALSINDEX}

\* Luau::create_table()
create_table ==
    /\ luau = "alive"
    /\ Len(stack) < MaxStack
    /\ Len(tables) < GlobalsTable + MaxTables
    /\ tables' = Append(tables, [k \in Keys |-> NilValue])
    /\ stack' = Append(stack, TableValue(Len(tables) + 1))
    /\ ret' = Ret("create_table", "Ok", Len(tables) + 1)
    /\ UNCHANGED <<userdata, refGuards, mutGuards, last>>
    /\ UNCHANGED <<closures, luau, embedded, reclaim>>
    /\ UNCHANGED <<varsIndex, varsLife, varsHost, varsPure>>

\* Luau::set_field(idx, field): push_string(field), shift(-2), set_table(idx)
set_field(i, field) ==
    /\ luau = "alive"
    /\ Len(stack) <= MaxStack
    /\ LET r == [Ret("set_field", "panic", i) EXCEPT !.key = field]
           shifted == set_field_index(i, Len(stack))
           pushed == Append(stack, StringValue(field))
       IN  IF luau_stack_precondition(check_stack(Len(stack), 1))
           THEN /\ ret' = r
                /\ UNCHANGED <<stack, tables>>
           ELSE IF luau_stack_precondition(check_index(-2, Len(pushed)))
           THEN /\ ret' = r
                /\ stack' = pushed
                /\ tables' = tables
           ELSE IF luau_stack_precondition(
                       check_index(shifted, Len(lua_insert(pushed, -2))))
           THEN /\ ret' = r
                /\ stack' = lua_insert(pushed, -2)
                /\ tables' = tables
           ELSE LET stk == lua_insert(pushed, -2)
                    tb == index2addr(stk, shifted)
                IN  IF tb.t = "table"
                    THEN /\ tables' = [tables EXCEPT ![tb.p][field] = stk[Len(stk)]]
                         /\ stack' = SubSeq(stk, 1, Len(stk) - 2)
                         /\ ret' = [r EXCEPT !.res = "Ok", !.target = tb]
                    ELSE /\ tables' = tables
                         /\ stack' = stk
                         /\ ret' = [r EXCEPT !.res = "error", !.target = tb]
    /\ UNCHANGED <<userdata, refGuards, mutGuards, last>>
    /\ UNCHANGED <<closures, luau, embedded, reclaim>>
    /\ UNCHANGED <<varsIndex, varsLife, varsHost, varsPure>>

\* Luau::get_field(idx, field): push_string(field), get_table(idx)
get_field(i, field) ==
    /\ luau = "alive"
    /\ Len(stack) < MaxStack
    /\ LET r == [Ret("get_field", "panic", i) EXCEPT !.key = field]
           shifted == get_field_index(i)
           pushed == Append(stack, StringValue(field))
       IN  IF luau_stack_precondition(check_index(i, Len(stack)))
           THEN /\ ret' = r
                /\ stack' = stack
           ELSE IF luau_stack_precondition(check_stack(Len(stack), 1))
           THEN /\ ret' = r
                /\ stack' = stack
           ELSE IF luau_stack_precondition(check_index(shifted, Len(pushed)))
           THEN /\ ret' = r
                /\ stack' = pushed
           ELSE LET tb == index2addr(pushed, shifted)
                IN  IF tb.t = "table"
                    THEN /\ stack' = Append(stack, tables[tb.p][field])
                         /\ ret' = [r EXCEPT !.res = "Ok", !.target = tb]
                    ELSE /\ stack' = pushed
                         /\ ret' = [r EXCEPT !.res = "error", !.target = tb]
    /\ UNCHANGED <<userdata, refGuards, mutGuards, last>>
    /\ UNCHANGED <<tables, closures, luau, embedded, reclaim>>
    /\ UNCHANGED <<varsIndex, varsLife, varsHost, varsPure>>

(***************************************************************************)
(* Root creation (Luau::new) and the application-data slot of              *)
(* AssociatedData.                                                         *)
(***************************************************************************)
\* Option::None, in the slot and in what the calls return.
NoneValue ==
    [ty |-> "None", val |-> 0]

\* What a creation or application-data call leaves for the host to see: the
\* root and the kind of context it was made on, its argument and type
\* parameter, what it returned, how it ended, and for Luau::new whether
\* lua_newstate gave null and how many foreign calls were made on a null state.
AppRet(o, r, c, a, T, v, e) ==
    [op |-> o, root |-> r, ctx |-> c, arg |-> a, T |-> T, res |-> v,
     end |-> e, null_state |-> FALSE, null_calls |-> 0]

\* Every root created by Luau::new with an empty slot; no reference held.
HostIdle ==
    /\ created = [r \in Roots |-> "Ok"]
    /\ app_data = [r \in Roots |-> NoneValue]
    /\ app = AppRet("none", 0, "none", NoneValue, "none", NoneValue, "none")
    /\ state_refs = {}

\* The host before it calls Luau::new.
AppInit ==
    /\ created = [r \in Roots |-> "none"]
    /\ app_data = [r \in Roots |-> NoneValue]
    /\ app = AppRet("none", 0, "none", NoneValue, "none", NoneValue, "none")
    /\ state_refs = {}

\* No pure function applied.
PureIdle ==
    /\ input = <<>>
    /\ output = <<>>

\* The contexts a call is made on: the root itself, a secondary context
\* (LuauThread::get_state) or a non-owning view (Luau::from_ptr).
Contexts ==
    {"root", "thread", "view"}

\* Luau::new_state: the foreign calls made on the state lua_newstate gave,
\* before it is returned: lua_setuserdatadtor and lua_callbacks.
new_state(newstate_null) ==
    [state_null |-> newstate_null, foreign_calls |-> 2]

\* Luau::new(allocator): new_state, then the test of the state for null.
\* A foreign call on a null state is undefined: the process dies in it, or
\* it goes on.
Luau_new(r, newstate_null) ==
    /\ created[r] = "none"
    /\ LET st == new_state(newstate_null)
           made == AppRet("new", r, "root", NoneValue, "none", NoneValue, "Ok")
       IN  IF ~st.state_null
           THEN /\ created' = [created EXCEPT ![r] = "Ok"]
                /\ app' = made
           ELSE /\ created' = [created EXCEPT ![r] = "failed"]
                /\ \E outcome \in {"crash", "panic"} :
                       app' = [made EXCEPT
                                 !.end = outcome,
                                 !.null_state = TRUE,
                                 !.null_calls = IF outcome = "crash"
                                                THEN 1
                                                ELSE st.foreign_calls]
    /\ app_data' = [app_data EXCEPT ![r] = NoneValue]
    /\ UNCHANGED state_refs
    /\ UNCHANGED <<varsIndex, varsBorrow, varsLife, varsVm, varsPure>>

\* <dyn Any>::downcast_ref::<T>() on the slot's box.
downcast_ref(slot, T) ==
    IF slot # NoneValue /\ type_id(slot) = T THEN slot ELSE NoneValue

\* Luau::set_app_data(ud) on a context of root r: Option::replace for
\* Some(v), Option::take for None; the previous value is returned.
set_app_data(r, c, ud) ==
    /\ created[r] = "Ok"
    /\ LET associated_data == get_associated(r)
       IN  /\ app' = AppRet("set_app_data", r, c, ud, "none",
                            app_data[associated_data], "Ok")
           /\ app_data' = [app_data EXCEPT ![associated_data] = ud]
    /\ UNCHANGED <<created, state_refs>>
    /\ UNCHANGED <<varsIndex, varsBorrow, varsLife, varsVm, varsPure>>

\* Luau::get_app_data::<T>() on a context of root r
get_app_data(r, c, T) ==
    /\ created[r] = "Ok"
    /\ app' = AppRet("get_app_data", r, c, NoneValue, T,
                     downcast_ref(app_data[get_associated(r)], T), "Ok")
    /\ UNCHANGED <<created, app_data, state_refs>>
    /\ UNCHANGED <<varsIndex, varsBorrow, varsLife, varsVm, varsPure>>

(***************************************************************************)
(* CompilerResult: what luau_compile returned, and its accessors.          *)
(***************************************************************************)
\* The results luau_compile gives: NULL on an allocation error (outsize is
\* left at 0), or a buffer of at least one byte, bytecode or an error text
\* behind a zero byte.
CompilerResults ==
    {[null |-> TRUE, buf |-> <<>>]} \cup
    {[null |-> FALSE, buf |-> b] :
        b \in UNION {[1 .. n -> {0, 1, 2}] : n \in 1 .. MaxLen}}

\* CompilerResult::is_err
is_err(r) ==
    ~r.null /\ r.buf[1] = 0

\* CompilerResult::is_ok
is_ok(r) ==
    ~is_err(r)

\* CompilerResult::bytecode: the outcomes it can have.  The slice is made by
\* slice::from_raw_parts, which is undefined for a null pointer: an empty
\* slice, or the abort of its precondition check.
bytecode(r) ==
    IF is_err(r)
    THEN {[end |-> "Ok", some |-> FALSE, bytes |-> <<>>]}
    ELSE IF r.null
         THEN {[end |-> "Ok", some |-> TRUE, bytes |-> <<>>],
               [end |-> "abort", some |-> FALSE, bytes |-> <<>>]}
         ELSE {[end |-> "Ok", some |-> TRUE, bytes |-> r.buf]}

\* CompilerResult::error: the text behind the first byte.
error(r) ==
    IF is_ok(r)
    THEN {[end |-> "Ok", some |-> FALSE, bytes |-> <<>>]}
    ELSE {[end |-> "Ok", some |-> TRUE, bytes |-> Tail(r.buf)]}

\* The host calls one accessor of the result.
CompilerResult_call(method) ==
    /\ input \in CompilerResults
    /\ \E value \in (CASE method = "bytecode" -> bytecode(input)
                        [] method = "error" -> error(input)
                        [] method = "is_err" ->
                             {[end |-> "Ok", some |-> is_err(input), bytes |-> <<>>]}
                        [] method = "is_ok" ->
                             {[end |-> "Ok", some |-> is_ok(input), bytes |-> <<>>]}) :
           output' = [method |-> method, value |-> value]
    /\ UNCHANGED input
    /\ UNCHANGED <<varsIndex, varsBorrow, varsLife, varsVm, varsHost>>

(***************************************************************************)
(* luau_alloc_cb: the allocator callback handed to lua_newstate.           *)
(***************************************************************************)
\* A usize of a 32-bit target as its top bit and its lower 31 bits.
usize(msb, low) ==
    [msb |-> msb, low |-> low]

\* The arguments the VM calls back with: a null (0) or non-null block, and
\* sizes at zero, small, and on either side of isize::MAX.
AllocInputs ==
    LET sizes == {usize(0, 0), usize(0, 1), usize(0, 2), usize(0, INT_MAX),
                  usize(1, 0), usize(1, INT_MAX)}
    IN  [ptr : {0, 1, 2}, old_size : sizes, new_size : sizes]

\* luau_alloc_cb without the early return for a size of zero.
luau_alloc_cb_body_no_free(ptr, old_size, new_size) ==
    IF new_size.msb = 1
    THEN [calls |-> <<>>, ret |-> "null"]
    ELSE IF ptr = 0
         THEN [calls |-> <<[fn |-> "allocate", ptr |-> 0,
                            old_size |-> usize(0, 0), size |-> new_size]>>,
               ret |-> "allocator"]
         ELSE [calls |-> <<[fn |-> "reallocate", ptr |-> ptr,
                            old_size |-> old_size, size |-> new_size]>>,
               ret |-> "allocator"]

\* luau_alloc_cb(ud, ptr, old_size, new_size): the calls it makes on the
\* LuauAllocator, in order, and whether it returns null or what the
\* allocator returned.
luau_alloc_cb_body(ptr, old_size, new_size) ==
    IF new_size = usize(0, 0)
    THEN [calls |-> IF ptr # 0
                    THEN <<[fn |-> "deallocate", ptr |-> ptr,
                            old_size |-> old_size, size |-> usize(0, 0)]>>
                    ELSE <<>>,
          ret |-> "null"]
    ELSE IF new_size.msb = 1
    THEN [calls |-> <<>>, ret |-> "null"]
    ELSE IF ptr = 0
         THEN [calls |-> <<[fn |-> "allocate", ptr |-> 0,
                            old_size |-> usize(0, 0), size |-> new_size]>>,
               ret |-> "allocator"]
         ELSE [calls |-> <<[fn |-> "reallocate", ptr |-> ptr,
                            old_size |-> old_size, size |-> new_size]>>,
               ret |-> "allocator"]

\* The VM calls luau_alloc_cb.
call_luau_alloc_cb ==
    /\ input \in AllocInputs
    /\ output = <<>>
    /\ output' = luau_alloc_cb_body(input.ptr, input.old_size, input.new_size)
    /\ UNCHANGED input
    /\ UNCHANGED <<varsIndex, varsBorrow, varsLife, varsVm, varsHost>>

(***************************************************************************)
(* LuauLibs: a u32 of library flags, held as the set of its one-bits.      *)
(***************************************************************************)
\* LuauLibs::ALL_LIBS = LuauLibs(u32::MAX)
ALL_LIBS ==
    0 .. 31

\* The library sets the host builds: every combination of the flags
\* LIB_BASE = 1 << 0 up to 1 << MaxLibBit, and ALL_LIBS.
LibSets ==
    (SUBSET (0 .. MaxLibBit)) \cup {ALL_LIBS}

\* impl BitOr for LuauLibs: LuauLibs(self.0 | rhs.0)
BitOr(self, rhs) ==
    self \cup rhs

\* LuauLibs::has(&self, lib): self.0 & lib.0 == self.0
has(self, lib) ==
    (self \cap lib) = self

\* s.has(lib) with s = a and lib = b
call_has ==
    /\ input \in [a : LibSets, b : LibSets]
    /\ output' = [op |-> "has", value |-> has(input.a, input.b)]
    /\ UNCHANGED input
    /\ UNCHANGED <<varsIndex, varsBorrow, varsLife, varsVm, varsHost>>

\* (a | b).has(a)
call_bitor_has ==
    /\ input \in [a : LibSets, b : LibSets]
    /\ output' = [op |-> "bitor_has", value |-> has(BitOr(input.a, input.b), input.a)]
    /\ UNCHANGED input
    /\ UNCHANGED <<varsIndex, varsBorrow, varsLife, varsVm, varsHost>>

(***************************************************************************)
(* Specifications.                                                         *)
(***************************************************************************)
NextIndex ==
    \/ CallCheckIndex
    \/ CallIsNumber
    \/ CallToBoolean
    \/ \E is_table \in BOOLEAN : CallSetReadonly(is_table)
    \/ CallGetThread
    \/ CallPushNil
    \/ CallCreateTable
    \/ CallPushThread

InitIndex ==
    IndexInit /\ BorrowIdle /\ LifeIdle /\ VmIdle /\ HostIdle /\ PureIdle

SpecIndex ==
    InitIndex /\ [][NextIndex]_vars

NextBorrow ==
    \/ \E object \in Objects : push_userdata(object)
    \/ \E n \in Numbers : push_number(n)
    \/ \E T \in Types, i \in BorrowIdxInputs : try_borrow_userdata(T, i)
    \/ \E T \in Types, i \in BorrowIdxInputs : try_borrow_userdata_mut(T, i)
    \/ \E b \in BlockIds : drop_UserdataRef(b)
    \/ \E b \in BlockIds : drop_UserdataRefMut(b)
    \/ \E T \in Types, i \in BorrowIdxInputs : is_userdata(T, i)
    \/ \E T \in Types, i \in BorrowIdxInputs : borrow_userdata(T, i)
    \/ drop_Luau
    \/ \E v \in BlockIds : dtor_rs_luau_userdata_callback(v)
    \/ drop_Luau_return

InitBorrow ==
    IndexIdle /\ BorrowInit /\ LifeIdle /\ VmIdle /\ HostIdle /\ PureIdle

SpecBorrow ==
    InitBorrow /\ [][NextBorrow]_vars

NextLife ==
    \/ \E r \in Roots, h \in HandleIds : push_thread(r, h)
    \/ \E g \in HandleIds, h \in HandleIds : push_thread_from_thread(g, h)
    \/ \E r \in Roots, h \in HandleIds, is_thread \in BOOLEAN : get_thread(r, h, is_thread)
    \/ \E h \in HandleIds : call_try_get_state(h)
    \/ \E h \in HandleIds : call_get_state(h)
    \/ \E h \in HandleIds : drop_LuauThread(h)
    \/ \E r \in Roots : drop_view(r)
    \/ \E r \in Roots : drop_mark_dead(r)
    \/ \E r \in Roots : drop_lua_close_call(r)
    \/ \E r \in Roots : drop_lua_close_return(r)
    \/ \E r \in Roots : drop_release_associated(r)
    \/ \E r \in Roots : luau_alloc_cb(r)

InitLife ==
    IndexIdle /\ BorrowIdle /\ LifeInit /\ VmIdle /\ HostIdle /\ PureIdle

SpecLife ==
    InitLife /\ [][NextLife]_vars

NextStack ==
    \/ \E n \in Numbers : push_number(n)
    \/ push_nil
    \/ \E i \in StackIdxInputs : to_number(i)
    \/ \E n \in PopInputs : pop(n)

InitStack ==
    IndexIdle /\ BorrowInit /\ LifeIdle /\ VmIdle /\ HostIdle /\ PureIdle

SpecStack ==
    InitStack /\ [][NextStack]_vars

NextCall ==
    \/ \E n \in Numbers : push_number(n)
    \/ \E num_upvals \in 0 .. MaxUpvalues : push_function(num_upvals)
    \/ \E nargs \in 0 .. MaxStack, nresults \in 0 .. 1 : call(nargs, nresults)

InitCall ==
    IndexIdle /\ BorrowInit /\ LifeIdle /\ VmIdle /\ HostIdle /\ PureIdle

SpecCall ==
    InitCall /\ [][NextCall]_vars

NextTable ==
    \/ \E n \in Numbers : push_number(n)
    \/ create_table
    \/ \E i \in TableIdxInputs, field \in Keys : set_field(i, field)
    \/ \E i \in TableIdxInputs, field \in Keys : get_field(i, field)
    \/ \E n \in PopInputs : pop(n)

InitTable ==
    IndexIdle /\ BorrowInit /\ LifeIdle /\ VmIdle /\ HostIdle /\ PureIdle

SpecTable ==
    InitTable /\ [][NextTable]_vars

NextApp ==
    \/ \E r \in Roots, newstate_null \in BOOLEAN : Luau_new(r, newstate_null)
    \/ \E r \in Roots, c \in Contexts, ud \in Objects \cup {NoneValue} :
           set_app_data(r, c, ud)
    \/ \E r \in Roots, c \in Contexts, T \in Types : get_app_data(r, c, T)

InitApp ==
    IndexIdle /\ BorrowIdle /\ LifeIdle /\ VmIdle /\ AppInit /\ PureIdle

SpecApp ==
    InitApp /\ [][NextApp]_vars

NextCompile ==
    \E method \in {"bytecode", "error", "is_err", "is_ok"} :
        CompilerResult_call(method)

InitCompile ==
    /\ IndexIdle /\ BorrowIdle /\ LifeIdle /\ VmIdle /\ HostIdle
    /\ input \in CompilerResults
    /\ output = <<>>

SpecCompile ==
    InitCompile /\ [][NextCompile]_vars

NextAlloc ==
    call_luau_alloc_cb

InitAlloc ==
    /\ IndexIdle /\ BorrowIdle /\ LifeIdle /\ VmIdle /\ HostIdle
    /\ input \in AllocInputs
    /\ output = <<>>

SpecAlloc ==
    InitAlloc /\ [][NextAlloc]_vars

NextLibs ==
    \/ call_has
    \/ call_bitor_has

InitLibs ==
    /\ IndexIdle /\ BorrowIdle /\ LifeIdle /\ VmIdle /\ HostIdle
    /\ input \in [a : LibSets, b : LibSets]
    /\ output = <<>>

SpecLibs ==
    InitLibs /\ [][NextLibs]_vars

NextRef ==
    \/ \E r \in Roots, h \in HandleIds : push_thread(r, h)
    \/ \E h \in HandleIds : keep_state(h)
    \/ \E h \in HandleIds : use_state(h)
    \/ \E h \in HandleIds : release_state(h)
    \/ \E r \in Roots, h \in HandleIds : resume(r, h)
    \/ \E r \in Roots : drop_mark_dead(r)
    \/ \E r \in Roots : drop_lua_close_call(r)
    \/ \E r \in Roots : drop_lua_close_return(r)
    \/ \E r \in Roots : drop_release_associated(r)

InitRef ==
    IndexIdle /\ BorrowIdle /\ LifeInit /\ VmIdle /\ HostIdle /\ PureIdle

SpecRef ==
    InitRef /\ [][NextRef]_vars

(***************************************************************************)
(* Claims about the stack index validator (checked under SpecIndex).       *)
(***************************************************************************)
\* C7: for every stack depth top and every positive idx, check_index(idx) is
\* true when 1 <= idx <= top and false when idx > top, and is_number(idx)
\* halts with the stack-precondition panic exactly when idx > top.
C7_PositiveIndexValidity ==
    idx > 0 =>
        /\ op = "check_index" => verdict = (idx <= top)
        /\ op = "is_number" => halted = (idx > top)

\* C8 as stated: for every top >= 0, check_index(0) is false.
C8_ZeroRejected ==
    (op = "check_index" /\ idx = 0) => verdict = FALSE

\* C8 as amended: for every top >= 0, check_index(0) is true, and a query
\* at index 0 passes the stack precondition.
C8_ZeroAccepted ==
    idx = 0 =>
        /\ op = "check_index" => verdict = TRUE
        /\ op = "is_number" => ~halted

C8_Witness ==
    /\ idx = 0
    /\ top = 1
    /\ op = "check_index"
    /\ verdict = TRUE

\* C9: for every top and every negative idx above the registry index: when
\* |idx| <= top, check_index(idx) is true and is the verdict of the
\* equivalent positive index top + idx + 1; when |idx| > top, check_index(idx)
\* is false and the query halts.
C9_NegativeIndexNormalizes ==
    (idx < 0 /\ idx > LUA_REGISTRYINDEX) =>
        IF -idx <= top
        THEN op = "check_index" =>
                 /\ verdict = TRUE
                 /\ verdict = check_index(top + idx + 1, top)
        ELSE /\ op = "check_index" => verdict = FALSE
             /\ op = "is_number" => halted

\* C10: check_index(idx) is true for every idx <= LUA_REGISTRYINDEX whatever
\* the stack depth (the registry, environment and globals sentinels and every
\* upvalue pseudo-index), and a query at such an index does not halt.
C10_PseudoIndexAccepted ==
    idx <= LUA_REGISTRYINDEX =>
        /\ op = "check_index" => verdict = TRUE
        /\ op = "is_number" => ~halted

C10_Witness ==
    /\ idx = lua_upvalueindex(1)
    /\ top = 0
    /\ op = "check_index"
    /\ verdict = TRUE

(***************************************************************************)
(* Claims about the borrow tracker (checked under SpecBorrow).             *)
(***************************************************************************)
\* The step is a try_borrow_userdata / try_borrow_userdata_mut call that
\* reached the embedded value b.
AcquisitionOn(b) ==
    /\ last'.op \in {"try_borrow_userdata", "try_borrow_userdata_mut"}
    /\ last'.ptr = b

\* C1: while a UserdataRefMut on an embedded value is alive, every
\* try_borrow_userdata and try_borrow_userdata_mut on that value fails with
\* AlreadyMutable and hands out no guard; with no guard alive on the value
\* (the exclusive guard dropped), an acquisition of either kind succeeds.
C1_ExclusiveExcludesAll ==
    [][\A b \in BlockIds :
          AcquisitionOn(b) =>
              /\ mutGuards[b] > 0 =>
                     /\ last'.res = "AlreadyMutable"
                     /\ mutGuards'[b] = mutGuards[b]
                     /\ refGuards'[b] = refGuards[b]
              /\ (mutGuards[b] = 0 /\ refGuards[b] = 0) =>
                     /\ last'.res = "Ok"
                     /\ mutGuards'[b] + refGuards'[b] = 1]_vars

C1_Witness ==
    /\ last.op = "try_borrow_userdata"
    /\ last.res = "AlreadyMutable"
    /\ mutGuards[last.ptr] = 1

\* C2: with no exclusive guard alive, every try_borrow_userdata on the value
\* succeeds, however many shared guards are already held; while at least one
\* shared guard is alive, try_borrow_userdata_mut fails with AlreadyImmutable;
\* it succeeds only when no shared guard is left.
C2_SharedExcludesExclusive ==
    [][\A b \in BlockIds :
          AcquisitionOn(b) =>
              /\ (last'.op = "try_borrow_userdata" /\ mutGuards[b] = 0) =>
                     /\ last'.res = "Ok"
                     /\ refGuards'[b] = refGuards[b] + 1
              /\ (last'.op = "try_borrow_userdata_mut" /\ refGuards[b] >= 1) =>
                     /\ last'.res = "AlreadyImmutable"
                     /\ mutGuards'[b] = 0
              /\ (last'.op = "try_borrow_userdata_mut" /\ last'.res = "Ok") =>
                     refGuards[b] = 0]_vars

C2_Witness ==
    /\ last.op = "try_borrow_userdata_mut"
    /\ last.res = "AlreadyImmutable"
    /\ refGuards[last.ptr] >= 2

\* C3: in every reachable state, for every embedded value: the borrow cell is
\* -1 exactly when one exclusive guard and no shared guard is outstanding, and
\* otherwise it is the number of outstanding shared guards; a shared and an
\* exclusive guard never coexist and at most one exclusive guard exists.
C3_CellMirrorsGuards ==
    \A b \in 1 .. Len(userdata) :
        /\ mutGuards[b] <= 1
        /\ ~(mutGuards[b] >= 1 /\ refGuards[b] >= 1)
        /\ (userdata[b].count_cell = -1) <=> (mutGuards[b] = 1 /\ refGuards[b] = 0)
        /\ userdata[b].count_cell # -1 => userdata[b].count_cell = refGuards[b]

C3_Witness ==
    /\ Len(userdata) = 2
    /\ userdata[1].count_cell = -1
    /\ mutGuards[1] = 1
    /\ userdata[2].count_cell = 2
    /\ refGuards[2] = 2

(***************************************************************************)
(* Claims about the root / thread lifetime (checked under SpecLife).       *)
(***************************************************************************)
\* The step is a try_get_state / get_state call on the handle h.
AccessOn(h) ==
    /\ access'.op \in {"try_get_state", "get_state"}
    /\ access'.h = h
    /\ handles[h].held

\* C4: once the owning root has been dropped, every try_get_state on every
\* LuauThread spawned in that root's VM returns Err(MainStateDeadError), and
\* get_state panics instead of returning a reference.
C4_DeadRootRefusesAccess ==
    [][\A h \in HandleIds :
          (AccessOn(h) /\ Dropped(handles[h].thread_vm)) =>
              /\ access'.op = "try_get_state" => access'.res = "MainStateDeadError"
              /\ access'.op = "get_state" => access'.res = "panic"]_vars

C4_Witness ==
    /\ access.op = "try_get_state"
    /\ access.res = "MainStateDeadError"
    /\ handles[access.h].held
    /\ Dropped(handles[access.h].thread_vm)

\* C5: the liveness flag of a root is true until the owning root is dropped;
\* it is written only by the owning root's drop, from true to false, and is
\* false once the drop is over; while it is true, try_get_state on every
\* handle of that root returns Ok.
C5_FlagWrittenOnceByRootDrop ==
    [][\A r \in Roots :
          /\ rootpc[r] = 0 => main_thread_rc[r]
          /\ rootpc'[r] = 0 => main_thread_rc'[r]
          /\ main_thread_rc'[r] # main_thread_rc[r] =>
                 /\ main_thread_rc[r] = TRUE
                 /\ access'.op = "drop_mark_dead"
                 /\ access'.root = r
          /\ rootpc'[r] = Len(DropOrder) => ~main_thread_rc'[r]
          /\ \A h \in HandleIds :
                 (AccessOn(h) /\ handles[h].thread_vm = r /\ main_thread_rc[r]) =>
                     access'.res = "Ok"]_vars

C5_Witness ==
    /\ access.op = "try_get_state"
    /\ access.res = "Ok"
    /\ handles[access.h].held
    /\ main_thread_rc[handles[access.h].thread_vm]
    /\ \E r \in Roots : Dropped(r) /\ ~main_thread_rc[r]

\* C6: the drop of the owning root clears the liveness flag, then closes the
\* VM, then releases the associated data: the VM is never closing or closed
\* while the flag is true, the associated data is released only after
\* lua_close has returned, and every allocator callback finds the allocator.
C6_DropOrder ==
    \A r \in Roots :
        /\ vm[r] # "open" => ~main_thread_rc[r]
        /\ ~associated[r] => vm[r] = "closed"
        /\ (access.op = "luau_alloc_cb" /\ access.root = r) => access.res = "Ok"

C6_Witness ==
    /\ access.op = "luau_alloc_cb"
    /\ access.res = "Ok"
    /\ vm[access.root] = "closing"
    /\ ~main_thread_rc[access.root]
    /\ associated[access.root]

(***************************************************************************)
(* Claims about embedded values (checked under SpecBorrow).                *)
(***************************************************************************)
\* C11: after push_userdata(v) with v of type T, a query with T at a stack
\* position holding that block finds the block, and the payload behind the
\* guard is v; a query with any other type U finds nothing (None, never the
\* T payload); a position that holds no embedded block gives None.
C11_EmbeddingRoundTrip ==
    /\ \A i \in BorrowIdxInputs, T \in Types :
           ~luau_stack_precondition(check_index(i, Len(stack))) =>
               LET v == index2value(stack, i)
                   g == get_userdata_ptr(stack, userdata, T, i)
               IN  IF v.t = "userdata"
                   THEN IF type_id(embedded[v.p]) = T
                        THEN /\ g.ptr = v.p
                             /\ userdata[g.ptr].inner = embedded[v.p]
                        ELSE g.ptr = 0
                   ELSE g.ptr = 0
    /\ (last.op \in {"is_userdata", "borrow_userdata", "try_borrow_userdata",
                     "try_borrow_userdata_mut"} /\ last.ptr # 0) =>
           /\ userdata[last.ptr].inner = embedded[last.ptr]
           /\ \E i \in BorrowIdxInputs : index2value(stack, i) = UserdataValue(last.ptr)

C11_Witness ==
    /\ Len(userdata) = 2
    /\ embedded[1] = [ty |-> "Unit", val |-> 0]
    /\ embedded[2] = [ty |-> "Vec", val |-> 2]
    /\ last = [op |-> "borrow_userdata", ptr |-> 2, res |-> "Some"]
    /\ userdata[2].inner = [ty |-> "Vec", val |-> 2]

\* The embedded object's type has drop glue (Vec<i32> has, () has not).
HasTeardown(object) ==
    object.ty = "Vec"

\* C12: for every embedded value whose type has teardown logic, the drop of
\* the owning root runs the teardown exactly once (never twice at any time,
\* and once when the drop is over); for a type with no teardown logic no
\* destructor is stored in the block and the per-tag hook runs nothing.
C12_DestructorOnReclaim ==
    \A b \in 1 .. Len(userdata) :
        /\ userdata[b].dtor = HasTeardown(embedded[b])
        /\ reclaim[b].teardown <= 1
        /\ reclaim[b].teardown <= reclaim[b].hook
        /\ ~HasTeardown(embedded[b]) => reclaim[b].teardown = 0
        /\ (luau = "dropped" /\ HasTeardown(embedded[b])) => reclaim[b].teardown = 1

C12_Witness ==
    /\ luau = "dropped"
    /\ Len(userdata) = 2
    /\ HasTeardown(embedded[1])
    /\ reclaim[1] = [hook |-> 1, teardown |-> 1]
    /\ ~HasTeardown(embedded[2])
    /\ reclaim[2] = [hook |-> 1, teardown |-> 0]

(***************************************************************************)
(* Claims about the stack depth (checked under SpecStack).                 *)
(***************************************************************************)
\* C13: on a fresh root top() is 0; each push_number raises top() by exactly
\* one and to_number(-1) then reads the pushed number back unchanged; for
\* every n with 0 <= n <= top, pop(n) passes its precondition and leaves
\* top() equal to the previous top minus n.
C13_StackDepthAccounting ==
    /\ Len(stack) = 0
    /\ [][/\ ret'.op = "push_number" =>
               /\ Len(stack') = Len(stack) + 1
               /\ ~luau_stack_precondition(check_index(-1, Len(stack')))
               /\ lua_tonumberx(stack', -1) = [is_number |-> 1, number |-> ret'.val]
          /\ (ret'.op = "pop" /\ 0 <= ret'.val /\ ret'.val <= Len(stack)) =>
               /\ ret'.res = "Ok"
               /\ Len(stack') = Len(stack) - ret'.val
          /\ (ret'.op = "to_number" /\ ret.op = "push_number"
              /\ ret'.res # "panic" /\ Len(stack) = 1) =>
               /\ ret'.res = "Some"
               /\ ret'.val = ret.val]_vars

C13_Witness ==
    /\ ret = Ret("pop", "Ok", 1)
    /\ Len(stack) = 1
    /\ lua_tonumberx(stack, -1) = [is_number |-> 1, number |-> 2]

(***************************************************************************)
(* Claims about views and handles (checked under SpecLife).                *)
(***************************************************************************)
\* C14: the drop of a non-owning view (a Luau from from_ptr, the view inside
\* a LuauThread included) closes no VM, frees no associated data and changes
\* no liveness flag; a VM is closed, and its associated data freed, only by
\* the steps of the owning root's drop, and a VM goes from open to closed
\* once and never again.
C14_ViewDropDestroysNothing ==
    [][/\ access'.op \in {"drop_view", "drop_LuauThread"} =>
              /\ vm' = vm
              /\ associated' = associated
              /\ main_thread_rc' = main_thread_rc
       /\ \A r \in Roots :
              /\ vm'[r] # vm[r] =>
                     /\ access'.root = r
                     /\ \/ /\ access'.op = "lua_close_call"
                           /\ vm[r] = "open"
                           /\ vm'[r] = "closing"
                        \/ /\ access'.op = "lua_close_return"
                           /\ vm[r] = "closing"
                           /\ vm'[r] = "closed"
              /\ associated'[r] # associated[r] =>
                     /\ access'.root = r
                     /\ access'.op = "drop_release_associated"]_vars

C14_Witness ==
    /\ access.op = "drop_view"
    /\ vm[access.root] = "open"
    /\ associated[access.root]
    /\ main_thread_rc[access.root]
    /\ \E h \in HandleIds : handles[h].held /\ handles[h].thread_vm = access.root
    /\ \E r \in Roots : Dropped(r)

\* C15: every handle of a root, whether made by push_thread, by get_thread or
\* by push_thread on a secondary context's view, holds the liveness flag of
\* that root; the handles of one root go from alive to dead in the same step,
\* the root's drop, and the handles of another root are not affected by it.
C15_HandlesShareLiveness ==
    [][\A h \in HandleIds :
          /\ handles'[h].held => handles'[h].root_check = handles'[h].thread_vm
          /\ (/\ handles[h].held
              /\ handles'[h].held
              /\ main_thread_rc[handles[h].root_check]
              /\ ~main_thread_rc'[handles'[h].root_check]) =>
                 /\ access'.op = "drop_mark_dead"
                 /\ access'.root = handles[h].thread_vm
                 /\ \A g \in HandleIds :
                        handles[g].held =>
                            IF handles[g].thread_vm = handles[h].thread_vm
                            THEN ~main_thread_rc'[handles'[g].root_check]
                            ELSE main_thread_rc'[handles'[g].root_check]
                                     = main_thread_rc[handles[g].root_check]]_vars

C15_Witness ==
    /\ access.op = "drop_mark_dead"
    /\ access.root = 1
    /\ \A h \in {1, 2} : handles[h].held /\ handles[h].thread_vm = 1
    /\ try_get_state(handles[1]) = "MainStateDeadError"
    /\ try_get_state(handles[2]) = "MainStateDeadError"
    /\ main_thread_rc[2]

(***************************************************************************)
(* Claims about the preconditions of the operations (checked under         *)
(* SpecIndex).                                                             *)
(***************************************************************************)
\* C16: every operation that hands the caller's stack index to the VM halts
\* with the stack-precondition panic, and makes no foreign call, when
\* check_index rejects the index.
C16_IndexCheckedBeforeForeignCall ==
    (/\ op \in {"is_number", "to_boolean", "set_readonly", "get_thread"}
     /\ ~check_index(idx, top)) =>
        /\ halted
        /\ ~foreign_call

\* C17: every operation that pushes a value halts with the stack-precondition
\* panic, and makes no foreign push, when check_stack refuses the slot it
\* would push.
C17_StackCheckedBeforePush ==
    (/\ op \in {"push_nil", "create_table", "push_thread"}
     /\ ~check_stack(top, 1)) =>
        /\ halted
        /\ ~foreign_call

(***************************************************************************)
(* Claims about host functions and calls (checked under SpecCall).         *)
(***************************************************************************)
\* C18: for every nargs >= 0, call(nargs, nresults) on a stack that ends with
\* a function f and nargs arguments above it passes its preconditions and
\* enters f; it halts with a contract violation only when the callee is no
\* function or fewer than nargs arguments lie above it.
C18_ProtectedCall ==
    [][ret'.op = "call" =>
           LET n == ret'.nargs
               wellformed == /\ n >= 0
                             /\ n + 1 <= Len(stack)
                             /\ stack[Len(stack) - n].t = "function"
           IN  /\ wellformed =>
                      /\ ret'.res \notin {"panic", "assert_panic"}
                      /\ ret'.callee = stack[Len(stack) - n].p
               /\ ret'.res \in {"panic", "assert_panic"} => ~wellformed]_vars

\* C19: push_function(func, name, k) with k values v1..vk on top of the stack
\* consumes them into the new callable, which replaces them on the stack;
\* when the callable is invoked the trampoline finds the boxed closure in the
\* upvalue slot it reads and func runs, and inside func upvalue(i) reads vi
\* for every i in 1..k.
C19_FunctionUpvalues ==
    [][/\ (ret'.op = "push_function" /\ ret'.res = "Ok") =>
              LET k == ret'.val
                  cl == closures'[Len(closures')]
              IN  /\ Len(stack') = Len(stack) - k + 1
                  /\ stack'[Len(stack')] = FunctionValue(Len(closures'))
                  /\ \A i \in 1 .. k :
                         index2upvalue(cl, i) = stack[Len(stack) - k + i]
       /\ (ret'.op = "call" /\ ret'.callee # 0) =>
              LET cl == closures[ret'.callee]
              IN  /\ ret'.res = "LUA_OK"
                  /\ ret'.box
                  /\ \A i \in 1 .. cl.num_upvals :
                         ret'.reads[i] = index2upvalue(cl, i)]_vars

(***************************************************************************)
(* Claims about the field accessors (checked under SpecTable).             *)
(***************************************************************************)
\* C20: for every valid idx that denotes a table when the call is made, a
\* positive index, a negative index or a pseudo-index, set_field(idx, k) and
\* get_field(idx, k) reach that very table: set_field stores the value on
\* top of the stack under k in it, and get_field pushes what it holds under
\* k, so that a get_field after a set_field pushes the value that was set.
C20_FieldAccessKeepsTable ==
    [][(/\ ret'.op \in {"set_field", "get_field"}
        /\ check_index(ret'.val, Len(stack))
        /\ index2addr(stack, ret'.val).t = "table"
        /\ ret'.op = "set_field" => Len(stack) >= 1) =>
           LET tb == index2addr(stack, ret'.val)
           IN  /\ ret'.res = "Ok"
               /\ ret'.target = tb
               /\ ret'.op = "set_field" =>
                      tables'[tb.p][ret'.key] = stack[Len(stack)]
               /\ ret'.op = "get_field" =>
                      /\ Len(stack') = Len(stack) + 1
                      /\ stack'[Len(stack')] = tables[tb.p][ret'.key]]_vars

(***************************************************************************)
(* Claims about pop (checked under SpecStack).                             *)
(***************************************************************************)
\* C21: for every n greater than the current top, pop(n) halts with the
\* stack-precondition panic before lua_settop is called, so the stack is
\* never set to a position below its bottom.
C21_PopBeyondTopPanics ==
    [][(ret'.op = "pop" /\ ret'.val > Len(stack)) =>
           /\ ret'.res = "panic"
           /\ stack' = stack]_vars

\* C24: whenever pop(n) returns without panicking, for any integer n, a
\* negative n included, the resulting top is the previous top minus n; a
\* negative count never removes a value.
C24_PopLowersTopByCount ==
    [][(ret'.op = "pop" /\ ret'.res = "Ok") =>
           /\ Len(stack') = Len(stack) - ret'.val
           /\ ret'.val < 0 => Len(stack') >= Len(stack)]_vars

(***************************************************************************)
(* Claims about failed acquisitions and guard lifetimes (checked under     *)
(* SpecBorrow).                                                            *)
(***************************************************************************)
\* C25: a failed or absent acquisition leaves the borrow cells unchanged:
\* when try_borrow_userdata or try_borrow_userdata_mut gives
\* Err(AlreadyMutable), Err(AlreadyImmutable) or None, the count cell of
\* every embedded value is what it was, and no guard has come to exist whose
\* drop could release anything.
C25_FailedAcquisitionChangesNothing ==
    [][(/\ last'.op \in {"try_borrow_userdata", "try_borrow_userdata_mut"}
        /\ last'.res \in {"AlreadyMutable", "AlreadyImmutable", "None"}) =>
           /\ userdata' = userdata
           /\ refGuards' = refGuards
           /\ mutGuards' = mutGuards]_vars

C25_Witness ==
    /\ last.op = "try_borrow_userdata_mut"
    /\ last.res = "AlreadyImmutable"
    /\ refGuards[last.ptr] = 2
    /\ userdata[last.ptr].count_cell = 2

\* C26: in every reachable state every outstanding guard, shared or
\* exclusive, refers to a block whose destructor hook has not run and whose
\* owning root has not been closed.
C26_GuardsReferToLiveBlocks ==
    \A b \in BlockIds :
        (refGuards[b] > 0 \/ mutGuards[b] > 0) =>
            /\ luau # "dropped"
            /\ reclaim[b].hook = 0

(***************************************************************************)
(* Claims about root creation and application data (checked under SpecApp).*)
(***************************************************************************)
\* C22: the application-data slot is one cell per root.  set_app_data(ud),
\* made on the root or on any context derived from it, returns what the
\* root's slot held and leaves ud in it (empty for None), and touches no
\* other root's slot; get_app_data::<T> on any such context returns the
\* value in the root's slot when it has type T, None when the slot is empty
\* or holds another type, and changes no slot.
C22_AppDataOneCellPerRoot ==
    [][/\ app'.op = "set_app_data" =>
              /\ app'.res = app_data[app'.root]
              /\ app_data' = [app_data EXCEPT ![app'.root] = app'.arg]
       /\ app'.op = "get_app_data" =>
              /\ app_data' = app_data
              /\ app'.res = IF app_data[app'.root].ty = app'.T
                            THEN app_data[app'.root]
                            ELSE NoneValue]_vars

C22_Witness ==
    /\ app.op = "get_app_data"
    /\ app.root = 2
    /\ app.ctx = "thread"
    /\ app.res = [ty |-> "Vec", val |-> 2]
    /\ app_data[1] = [ty |-> "Unit", val |-> 0]

\* C28: Luau::new makes a foreign call on the new VM state only after it has
\* established that the state is not null; when lua_newstate gives null the
\* outcome is the panic "Initialization of Luau failed" and no foreign call
\* has been made on the null state.
C28_NullStateNeverUsed ==
    [][(app'.op = "new" /\ app'.null_state) =>
           /\ app'.end = "panic"
           /\ app'.null_calls = 0]_vars

(***************************************************************************)
(* Claims about CompilerResult (checked under SpecCompile).                *)
(***************************************************************************)
\* C23: for every CompilerResult exactly one of bytecode() and error() is
\* Some.  is_err() holds exactly when the first byte of the result buffer is
\* zero, and then bytecode() is None and error() is the text after that
\* byte; otherwise is_ok() holds, bytecode() is Some and error() is None.
C23_ResultIsBytecodeOrError ==
    output # <<>> =>
        LET first_zero == input.buf # <<>> /\ input.buf[1] = 0
            v == output.value
        IN  /\ v.end = "Ok"
            /\ output.method = "is_err" => v.some = first_zero
            /\ output.method = "is_ok" => v.some = ~first_zero
            /\ output.method = "bytecode" => v.some = ~first_zero
            /\ output.method = "error" =>
                   /\ v.some = first_zero
                   /\ first_zero => v.bytes = Tail(input.buf)

(***************************************************************************)
(* Claims about the allocator callback (checked under SpecAlloc).          *)
(***************************************************************************)
\* C29: luau_alloc_cb makes at most one allocator call, chosen by its
\* arguments.  For new_size = 0 it calls deallocate(ptr, old_size) only when
\* ptr is not null, and returns null; otherwise for new_size > isize::MAX it
\* returns null and calls nothing; otherwise it calls allocate(new_size) for
\* a null ptr and reallocate(ptr, old_size, new_size) for any other.
\* allocate is never called with size 0, deallocate never with a null ptr.
C29_AllocatorDispatch ==
    output # <<>> =>
        LET zero == input.new_size.msb = 0 /\ input.new_size.low = 0
            huge == input.new_size.msb = 1
            null == input.ptr = 0
            made == {output.calls[k] : k \in 1 .. Len(output.calls)}
        IN  /\ Len(output.calls) <= 1
            /\ zero =>
                   /\ output.ret = "null"
                   /\ made = IF null
                             THEN {}
                             ELSE {[fn |-> "deallocate", ptr |-> input.ptr,
                                    old_size |-> input.old_size,
                                    size |-> usize(0, 0)]}
            /\ (~zero /\ huge) => (output.ret = "null" /\ made = {})
            /\ (~zero /\ ~huge /\ null) =>
                   made = {[fn |-> "allocate", ptr |-> 0,
                            old_size |-> usize(0, 0), size |-> input.new_size]}
            /\ (~zero /\ ~huge /\ ~null) =>
                   made = {[fn |-> "reallocate", ptr |-> input.ptr,
                            old_size |-> input.old_size, size |-> input.new_size]}
            /\ \A c \in made :
                   /\ c.fn = "allocate" => c.size # usize(0, 0)
                   /\ c.fn = "deallocate" => c.ptr # 0

C29_Witness ==
    /\ input = [ptr |-> 1, old_size |-> usize(0, 2), new_size |-> usize(0, 0)]
    /\ output # <<>>
    /\ output.calls = <<[fn |-> "deallocate", ptr |-> 1,
                         old_size |-> usize(0, 2), size |-> usize(0, 0)]>>

(***************************************************************************)
(* Claims about LuauLibs (checked under SpecLibs).                         *)
(***************************************************************************)
\* C30: LuauLibs::has is set membership.  For all library sets a and b,
\* (a | b).has(a) is true, so that ALL_LIBS.has(L) is true for every
\* single-library flag L; and s.has(L) is false when the single-library
\* flag L is not contained in s.
C30_HasIsMembership ==
    output # <<>> =>
        /\ output.op = "bitor_has" => output.value = TRUE
        /\ (output.op = "has" /\ Cardinality(input.b) = 1) =>
               /\ input.a = ALL_LIBS => output.value = TRUE
               /\ ~(input.b \subseteq input.a) => output.value = FALSE

(***************************************************************************)
(* Claims about state references (checked under SpecRef).                  *)
(***************************************************************************)
\* C27: no operation is performed on the VM state of a secondary context
\* after its root has been dropped.  A &Luau got from try_get_state or
\* get_state while the root was alive is not used for a stack operation once
\* the root is destroyed, and resume on a handle whose root is dead fails
\* the liveness check before lua_resume is called.
C27_NoUseAfterRootDrop ==
    [][/\ access'.op = "stack_op" => vm[access'.root] = "open"
       /\ (access'.op = "resume" /\ ~main_thread_rc[handles[access'.h].root_check]) =>
              access'.res = "panic"]_vars

==============================================================================
